---- MODULE Spec2Model ----
(***************************************************************************)
(* A model of the 3D Tetris engine of src/tetris.py: the GameState object  *)
(* (grid, pieces, bag, score), the Tetromino operations, and the GLUT      *)
(* callbacks (keyboard, special_keys, game_loop, display) that drive the   *)
(* mode state machine.  Every callback is one atomic action: GLUT runs     *)
(* them one after the other on a single thread.                            *)
(***************************************************************************)
EXTENDS Integers, Sequences, FiniteSets, TLC

VARIABLES
    game_state,             \* the GameState object (src/tetris.py:428)
    current_mode,           \* STATE_LOADING .. STATE_GAME_OVER
    time_accumulator_fall,  \* milliseconds accumulated towards the next fall
    camera_rot_y,           \* camera yaw in degrees
    halted,                 \* "" while running, else why the process ended
    last,                   \* history: what the last callback did
    window,                 \* history: draws since the oldest open refill
    inputs,                 \* history: counted requests so far (see MaxInputs)
    ret                     \* history: value returned by the last pure call

vars == <<game_state, current_mode, time_accumulator_fall, camera_rot_y,
          halted, last, window, inputs, ret>>

----------------------------------------------------------------------------
(* Program constants                                                       *)

GRID_X == 8
GRID_Y == 20
GRID_Z == 8
FALL_INTERVAL_MS == 500
MAX_HIGHSCORES == 10
\* Loading screen settings: "Auto-advance after 3 seconds".
LOADING_DURATION == 3000
\* The period of the game-loop timer, in milliseconds.
TIMER_PERIOD_MS == 16

STATE_LOADING   == 0
STATE_MAIN_MENU == 1
STATE_PLAYING   == 2
STATE_PAUSED    == 3
STATE_GAME_OVER == 4

\* Python's None, for a grid cell and for a colour that is absent.
None == "None"

\* The palette; a colour is modelled by its name, one name per RGB triple.
CYBER_COLORS == <<"cyan", "yellow", "orange", "blue", "purple", "green", "red">>

SHAPES_3D ==
    << << <<0,0,0>>, <<1,0,0>>, <<2,0,0>>, <<3,0,0>> >>,
       << <<0,0,0>>, <<1,0,0>>, <<0,1,0>>, <<1,1,0>>,
          <<0,0,1>>, <<1,0,1>>, <<0,1,1>>, <<1,1,1>> >>,
       << <<0,0,0>>, <<1,0,0>>, <<2,0,0>>, <<2,1,0>> >>,
       << <<0,0,0>>, <<1,0,0>>, <<2,0,0>>, <<0,1,0>> >>,
       << <<0,0,0>>, <<1,0,0>>, <<2,0,0>>, <<1,1,0>> >>,
       << <<1,0,0>>, <<2,0,0>>, <<0,1,0>>, <<1,1,0>> >>,
       << <<0,0,0>>, <<1,0,0>>, <<1,1,0>>, <<2,1,0>> >> >>

\* len(SHAPES_3D); shape indices are 0 .. NumShapes-1 as in Python.
NumShapes == Len(SHAPES_3D)

\* Python indexing SHAPES_3D[i] and CYBER_COLORS[i], i counted from 0.
ShapeAt(i) == SHAPES_3D[i + 1]
ColorAt(i) == CYBER_COLORS[i + 1]

----------------------------------------------------------------------------
(* Bounds of the model                                                     *)

\* How many different results random.shuffle may give.
NumShuffles == 1
\* How many moves, rotations, timed falls, camera turns and demo actions
\* happen in one run (hard drops and mode keys are not counted).
MaxInputs == 1
\* How many games are played to the end in one run (high-score entries);
\* in a game started after them no piece locks.
MaxGames == 1
\* check_collision as a function: how many cells of the grid are occupied,
\* and how many rotations the piece has been given.
MaxCells == 2
MaxTurns == 2
\* lock_piece_and_clear as a function: how many of the lowest layers hold cells.
MaxLayers == 7
\* Play on its own: how many hard drops the game has had at the start (or
\* one less, or none), and how many keys and ticks follow.
MaxDrops == 10
MaxMoves == 3
\* The elapsed time up to which the loading screen is followed, in milliseconds.
MaxElapsed == 4000
\* The number of add_score calls followed.
MaxScores == 12
\* The number of locks a fall is followed to.
MaxLocks == 1

----------------------------------------------------------------------------
(* Tetromino                                                               *)

\* A piece that is None.
NoPiece == [shape |-> <<>>, position |-> <<>>, color |-> None]

\* Tetromino.__init__: the spawn anchor.  (The random shape it draws is
\* always overwritten by the caller before it is read.)
SpawnPosition == <<GRID_X \div 2, GRID_Y - 3, GRID_Z \div 2>>

\* A Tetromino() whose shape and colour were then set from index i.
NewPiece(i) == [shape |-> ShapeAt(i), position |-> SpawnPosition, color |-> ColorAt(i)]

\* Tetromino.move
move(p, dx, dy, dz) ==
    [p EXCEPT !.position = <<p.position[1] + dx, p.position[2] + dy, p.position[3] + dz>>]

\* A variant of the rotation below whose turn about X forgets y.
RotateOffset_Flat(o, axis) ==
    IF axis = 0 THEN <<o[1], -o[3], 0>>
    ELSE IF axis = 1 THEN <<-o[3], o[2], o[1]>>
    ELSE <<-o[2], o[1], o[3]>>

\* One offset rotated about an axis (0 = x, 1 = y, 2 = z).
RotateOffset(o, axis) ==
    IF axis = 0 THEN <<o[1], -o[3], o[2]>>
    ELSE IF axis = 1 THEN <<-o[3], o[2], o[1]>>
    ELSE <<-o[2], o[1], o[3]>>

\* Tetromino.rotate
rotate(p, axis) ==
    [p EXCEPT !.shape = [i \in 1..Len(p.shape) |-> RotateOffset(p.shape[i], axis)]]

\* Tetromino.clone
clone(p) == [shape |-> p.shape, position |-> p.position, color |-> p.color]

\* The absolute cells of a piece: its position plus each offset of its shape.
CellsOf(p) ==
    {<<p.position[1] + p.shape[i][1], p.position[2] + p.shape[i][2],
       p.position[3] + p.shape[i][3]>> : i \in 1..Len(p.shape)}

----------------------------------------------------------------------------
(* GameState                                                               *)

EmptyGrid == [x \in 0..GRID_X-1 |-> [y \in 0..GRID_Y-1 |-> [z \in 0..GRID_Z-1 |-> None]]]

\* GameState.reset_grid
reset_grid(gs) == [gs EXCEPT !.grid = EmptyGrid, !.score = 0, !.is_new_highscore = FALSE]

\* A variant of the loop body below that tests the ranges only.
CellCollides_RangesOnly(grid, position, o) ==
    \/ position[1] + o[1] < 0 \/ position[1] + o[1] >= GRID_X
    \/ position[2] + o[2] < 0 \/ position[2] + o[2] >= GRID_Y
    \/ position[3] + o[3] < 0 \/ position[3] + o[3] >= GRID_Z

\* The loop body of check_collision for one offset: the three range tests
\* come first, and the grid is read only when all three pass.
CellCollides(grid, position, o) ==
    LET x == position[1] + o[1]
        y == position[2] + o[2]
        z == position[3] + o[3]
    IN  IF x < 0 \/ x >= GRID_X THEN TRUE
        ELSE IF y < 0 \/ y >= GRID_Y THEN TRUE
        ELSE IF z < 0 \/ z >= GRID_Z THEN TRUE
        ELSE grid[x][y][z] # None

\* The for loop of check_collision from offset i on: the first colliding
\* offset returns True, the end of the list returns False.
RECURSIVE CollisionFrom(_, _, _, _)
CollisionFrom(grid, shape, position, i) ==
    IF i > Len(shape) THEN FALSE
    ELSE IF CellCollides(grid, position, shape[i]) THEN TRUE
    ELSE CollisionFrom(grid, shape, position, i + 1)

\* GameState.check_collision(position): it reads the shape of current_piece.
check_collision(gs, position) == CollisionFrom(gs.grid, gs.current_piece.shape, position, 1)

\* A variant of the read below without the test of z.
CellRead_NoZTest(position, o) ==
    LET x == position[1] + o[1]
        y == position[2] + o[2]
        z == position[3] + o[3]
    IN  IF x < 0 \/ x >= GRID_X THEN {}
        ELSE IF y < 0 \/ y >= GRID_Y THEN {}
        ELSE {<<x, y, z>>}

\* The indices check_collision uses on self.grid for one offset: none when
\* one of the three range tests returns first.
CellRead(position, o) ==
    LET x == position[1] + o[1]
        y == position[2] + o[2]
        z == position[3] + o[3]
    IN  IF x < 0 \/ x >= GRID_X THEN {}
        ELSE IF y < 0 \/ y >= GRID_Y THEN {}
        ELSE IF z < 0 \/ z >= GRID_Z THEN {}
        ELSE {<<x, y, z>>}

\* The indices check_collision uses from offset i on, up to its return.
RECURSIVE ReadsFrom(_, _, _, _)
ReadsFrom(grid, shape, position, i) ==
    IF i > Len(shape) THEN {}
    ELSE IF CellCollides(grid, position, shape[i]) THEN CellRead(position, shape[i])
    ELSE CellRead(position, shape[i]) \cup ReadsFrom(grid, shape, position, i + 1)

\* The indices the locking loop writes to.
LockWrites(shape, cpos) ==
    {c \in {<<cpos[1] + shape[i][1], cpos[2] + shape[i][2], cpos[3] + shape[i][3]>> :
               i \in 1..Len(shape)} :
        0 <= c[1] /\ c[1] < GRID_X /\ 0 <= c[2] /\ c[2] < GRID_Y /\ 0 <= c[3] /\ c[3] < GRID_Z}

\* The indices the layer loops use: range(GRID_SIZE[0]) and
\* range(GRID_SIZE[2]) for x and z, y below GRID_SIZE[1] in the while loop,
\* move_y and move_y + 1 for move_y in range(y, GRID_SIZE[1] - 1), and
\* GRID_SIZE[1] - 1 for the top layer.
LayerIndices ==
    {<<x, y, z>> : x \in 0..GRID_X-1,
                   y \in (0..GRID_Y-1) \cup {m + 1 : m \in 0..GRID_Y-2} \cup {GRID_Y - 1},
                   z \in 0..GRID_Z-1}

\* A variant of the locking loop below that stops before the last offset.
RECURSIVE LockFrom_AllButLast(_, _, _, _, _)
LockFrom_AllButLast(grid, shape, cpos, ccol, i) ==
    IF i >= Len(shape) THEN grid
    ELSE LockFrom_AllButLast([grid EXCEPT ![cpos[1] + shape[i][1]][cpos[2] + shape[i][2]]
                                              [cpos[3] + shape[i][3]] = ccol],
                             shape, cpos, ccol, i + 1)

\* The locking loop of lock_piece_and_clear from offset i on: the colour is
\* written into every cell of the piece that lies inside the grid.
RECURSIVE LockFrom(_, _, _, _, _)
LockFrom(grid, shape, cpos, ccol, i) ==
    IF i > Len(shape) THEN grid
    ELSE LET x == cpos[1] + shape[i][1]
             y == cpos[2] + shape[i][2]
             z == cpos[3] + shape[i][3]
             g == IF 0 <= x /\ x < GRID_X /\ 0 <= y /\ y < GRID_Y /\ 0 <= z /\ z < GRID_Z
                  THEN [grid EXCEPT ![x][y][z] = ccol]
                  ELSE grid
         IN  LockFrom(g, shape, cpos, ccol, i + 1)

\* layer_full after the two nested loops over x and z.
LayerFull(grid, y) ==
    \A x \in 0..GRID_X-1 : \A z \in 0..GRID_Z-1 : grid[x][y][z] # None

\* "Move all layers above down by one" and "Clear the top layer".
ShiftDown(grid, y) ==
    [x \in 0..GRID_X-1 |->
        [yy \in 0..GRID_Y-1 |->
            IF yy < y THEN grid[x][yy]
            ELSE IF yy < GRID_Y - 1 THEN grid[x][yy + 1]
            ELSE [z \in 0..GRID_Z-1 |-> None]]]

\* A variant of the loop below that moves y up after a removal as well.
RECURSIVE ClearFrom_Advance(_, _, _)
ClearFrom_Advance(grid, y, layers_cleared) ==
    IF y >= GRID_Y THEN [grid |-> grid, layers_cleared |-> layers_cleared]
    ELSE IF LayerFull(grid, y)
    THEN ClearFrom_Advance(ShiftDown(grid, y), y + 1, layers_cleared + 1)
    ELSE ClearFrom_Advance(grid, y + 1, layers_cleared)

\* The while loop over y: a full layer is removed and the same y is looked
\* at again, any other layer moves y up by one.
RECURSIVE ClearFrom(_, _, _)
ClearFrom(grid, y, layers_cleared) ==
    IF y >= GRID_Y THEN [grid |-> grid, layers_cleared |-> layers_cleared]
    ELSE IF LayerFull(grid, y) THEN ClearFrom(ShiftDown(grid, y), y, layers_cleared + 1)
    ELSE ClearFrom(grid, y + 1, layers_cleared)

\* The layer-clearing phase of lock_piece_and_clear.
ClearLayers(grid) == ClearFrom(grid, 0, 0)

\* A variant of the bonus below without the table.
LayerBonus_Linear(layers_cleared) == layers_cleared * 100

\* scores.get(layers_cleared, layers_cleared * 100), added when layers_cleared > 0.
LayerBonus(layers_cleared) ==
    IF layers_cleared > 0
    THEN CASE layers_cleared = 1 -> 100
           [] layers_cleared = 2 -> 300
           [] layers_cleared = 3 -> 500
           [] layers_cleared = 4 -> 800
           [] OTHER -> layers_cleared * 100
    ELSE 0

\* A variant of the placement bonus below that charges for a placement.
PlacementBonus_Charge(shape) == 0 - Len(shape) * 10

\* len(self.current_piece.shape) * 10
PlacementBonus(shape) == Len(shape) * 10

\* list.pop(): the last element, and the list without it.
Last(bag) == bag[Len(bag)]
Front(bag) == SubSeq(bag, 1, Len(bag) - 1)

\* The results random.shuffle may give: rotations of the index list.
Shuffle(k) == [i \in 1..NumShapes |-> (i + k - 1) % NumShapes]
Shuffles == {Shuffle(k) : k \in 1..NumShuffles}

\* The bag after "Refill bag if empty".
Refilled(bag, perm) == IF bag = <<>> THEN perm ELSE bag

\* spawn_new_piece raises IndexError (pop from empty list) when the very
\* first spawn finds exactly one index in the bag.
spawn_raises(gs) == gs.current_piece = NoPiece /\ Len(gs.piece_bag) = 1

\* A variant of the test below that ends every spawn with game_over set.
SpawnCheck_Always(gs) == [gs EXCEPT !.game_over = TRUE]

\* The collision test that ends spawn_new_piece.
SpawnCheck(gs) ==
    IF check_collision(gs, gs.current_piece.position)
    THEN [gs EXCEPT !.game_over = TRUE]
    ELSE gs

\* A variant of the spawn below that draws the current piece as well
\* instead of promoting the next one.
spawn_new_piece_Redrawn(gs, perm) ==
    LET bag == Refilled(gs.piece_bag, perm)
    IN  IF gs.current_piece = NoPiece
        THEN IF Len(bag) = 1
             THEN [gs EXCEPT !.piece_bag = <<>>, !.current_piece = NewPiece(Last(bag))]
             ELSE SpawnCheck([gs EXCEPT !.piece_bag = Front(Front(bag)),
                                        !.current_piece = NewPiece(Last(bag)),
                                        !.next_piece = NewPiece(Last(Front(bag)))])
        ELSE SpawnCheck([gs EXCEPT !.piece_bag = Front(bag),
                                   !.current_piece = NewPiece(Last(bag)),
                                   !.next_piece = NewPiece(Last(bag))])

\* GameState.spawn_new_piece; perm is what random.shuffle gives if called.
\* When it raises, the state is the one left by the statements before.
spawn_new_piece(gs, perm) ==
    LET bag == Refilled(gs.piece_bag, perm)
    IN  IF gs.current_piece = NoPiece
        THEN IF Len(bag) = 1
             THEN [gs EXCEPT !.piece_bag = <<>>, !.current_piece = NewPiece(Last(bag))]
             ELSE SpawnCheck([gs EXCEPT !.piece_bag = Front(Front(bag)),
                                        !.current_piece = NewPiece(Last(bag)),
                                        !.next_piece = NewPiece(Last(Front(bag)))])
        ELSE SpawnCheck([gs EXCEPT !.piece_bag = Front(bag),
                                   !.current_piece = gs.next_piece,
                                   !.next_piece = NewPiece(Last(bag))])

\* GameState.lock_piece_and_clear
lock_piece_and_clear(gs, perm) ==
    LET locked  == LockFrom(gs.grid, gs.current_piece.shape, gs.current_piece.position,
                            gs.current_piece.color, 1)
        cleared == ClearLayers(locked)
        g1 == [gs EXCEPT !.grid = cleared.grid,
                         !.last_piece = clone(gs.current_piece),
                         !.score = gs.score + LayerBonus(cleared.layers_cleared)
                                            + PlacementBonus(gs.current_piece.shape)]
    IN  spawn_new_piece(g1, perm)

\* A variant of the insertion below that leaves the new score at the end.
InsertAt_End(hs, score, i) == Append(hs, score)

\* Where a score is put by append, sort(reverse=True) (a stable sort):
\* behind every entry that is at least as large.
RECURSIVE InsertAt(_, _, _)
InsertAt(hs, score, i) ==
    IF i > Len(hs) \/ hs[i] < score
    THEN SubSeq(hs, 1, i - 1) \o <<score>> \o SubSeq(hs, i, Len(hs))
    ELSE InsertAt(hs, score, i + 1)

\* A variant of the minimum below that takes the first entry.
MinFrom_First(hs, i) == hs[1]

\* min(entry["score"] for entry in self.highscores)
RECURSIVE MinFrom(_, _)
MinFrom(hs, i) ==
    IF i = Len(hs) THEN hs[i]
    ELSE LET m == MinFrom(hs, i + 1) IN IF hs[i] < m THEN hs[i] ELSE m

\* HighScoreManager.add_score: the new list and the value returned.  An
\* entry is modelled by its score; its date is not read by the program.
add_score(hs, score) ==
    LET is_high_score ==
            IF Len(hs) < MAX_HIGHSCORES THEN TRUE
            ELSE hs # <<>> /\ score > MinFrom(hs, 1)
        sorted == InsertAt(hs, score, 1)
    IN  [highscores |-> IF is_high_score
                        THEN SubSeq(sorted, 1, IF Len(sorted) < MAX_HIGHSCORES
                                               THEN Len(sorted) ELSE MAX_HIGHSCORES)
                        ELSE hs,
         is_high_score |-> is_high_score]

----------------------------------------------------------------------------
(* History of the bag: the draws made since a refill, up to a full bag     *)

\* A refill opens a new window unless one is still open (fewer than
\* NumShapes draws since the refill that opened it).
WinRefill(win) == IF Len(win) = NumShapes THEN <<>> ELSE win
WinDraw(win, i) == IF Len(win) < NumShapes THEN Append(win, i) ELSE win

\* The refill and the draws of one spawn_new_piece call made in state gs.
WinSpawn(win, gs, perm) ==
    LET bag == Refilled(gs.piece_bag, perm)
        w0  == IF gs.piece_bag = <<>> THEN WinRefill(win) ELSE win
    IN  IF gs.current_piece = NoPiece /\ Len(bag) > 1
        THEN WinDraw(WinDraw(w0, Last(bag)), Last(Front(bag)))
        ELSE WinDraw(w0, Last(bag))

----------------------------------------------------------------------------
(* Camera: math.sin and math.cos of the yaw, as Python computes them,      *)
(* in units of 10^-9 with the last place kept apart where two floats       *)
(* differ only there (sin(-45) = -0.7071067811865475,                      *)
(* cos(-45) = 0.7071067811865476, cos(90) = 6.1e-17).                      *)

Yaws == {-45, 0, 90}

Sin(yaw) ==
    CASE yaw = -180 -> -2         [] yaw = -135 -> -707106782
      [] yaw = -90  -> -1000000000 [] yaw = -45  -> -707106781
      [] yaw = 0    -> 0           [] yaw = 45   -> 707106781
      [] yaw = 90   -> 1000000000  [] yaw = 135  -> 707106782
      [] yaw = 180  -> 2

Cos(yaw) ==
    CASE yaw = -180 -> -1000000000 [] yaw = -135 -> -707106781
      [] yaw = -90  -> 1           [] yaw = -45  -> 707106782
      [] yaw = 0    -> 1000000000  [] yaw = 45   -> 707106782
      [] yaw = 90   -> 1           [] yaw = 135  -> -707106781
      [] yaw = 180  -> -1000000000

Abs(v) == IF v < 0 THEN -v ELSE v

\* int(round(v)) for a sine or cosine v.
Round(v) == IF v > 500000000 THEN 1 ELSE IF v < -500000000 THEN -1 ELSE 0

----------------------------------------------------------------------------
(* Callbacks                                                               *)

\* A variant of the move below that also lifts the piece by one cell.
TryMove_Lift(gs, dx, dz) ==
    LET moved == move(gs.current_piece, dx, 1, dz)
    IN  IF check_collision(gs, moved.position)
        THEN [gs EXCEPT !.current_piece = move(moved, -dx, -1, -dz)]
        ELSE [gs EXCEPT !.current_piece = moved]

\* A variant of the move below that keeps the piece where it collides.
TryMove_NoRevert(gs, dx, dz) == [gs EXCEPT !.current_piece = move(gs.current_piece, dx, 0, dz)]

\* A variant of the move below that moves back twice when it collides.
TryMove_BackTwice(gs, dx, dz) ==
    LET moved == move(gs.current_piece, dx, 0, dz)
    IN  IF check_collision(gs, moved.position)
        THEN [gs EXCEPT !.current_piece = move(moved, -2 * dx, 0, -2 * dz)]
        ELSE [gs EXCEPT !.current_piece = moved]

\* move the current piece, and move it back when it collides.
TryMove(gs, dx, dz) ==
    LET moved == move(gs.current_piece, dx, 0, dz)
    IN  IF check_collision(gs, moved.position)
        THEN [gs EXCEPT !.current_piece = move(moved, -dx, 0, -dz)]
        ELSE [gs EXCEPT !.current_piece = moved]

\* handle_wasd, called with current_mode = STATE_PLAYING.  The vectors have
\* length 1, so normalising them leaves them as they are.
handle_wasd(gs, key, yaw) ==
    IF gs.game_over \/ gs.current_piece = NoPiece THEN gs
    ELSE
    LET forward_x == Sin(yaw)
        forward_z == -Cos(yaw)
        right_x   == Cos(yaw)
        right_z   == Sin(yaw)
        fdom == Abs(forward_x) > Abs(forward_z)
        rdom == Abs(right_x) > Abs(right_z)
        move_x == CASE key = "w" -> IF fdom THEN (IF forward_x > 0 THEN 1 ELSE -1) ELSE 0
                    [] key = "s" -> IF fdom THEN (IF forward_x > 0 THEN -1 ELSE 1) ELSE 0
                    [] key = "a" -> IF rdom THEN (IF right_x > 0 THEN -1 ELSE 1) ELSE 0
                    [] key = "d" -> IF rdom THEN (IF right_x > 0 THEN 1 ELSE -1) ELSE 0
        move_z == CASE key = "w" -> IF fdom THEN 0 ELSE (IF forward_z > 0 THEN 1 ELSE -1)
                    [] key = "s" -> IF fdom THEN 0 ELSE (IF forward_z > 0 THEN -1 ELSE 1)
                    [] key = "a" -> IF rdom THEN 0 ELSE (IF right_z > 0 THEN -1 ELSE 1)
                    [] key = "d" -> IF rdom THEN 0 ELSE (IF right_z > 0 THEN 1 ELSE -1)
        alt_move_x == IF move_x # 0 THEN 0 ELSE (IF forward_x > 0 THEN 1 ELSE -1)
        alt_move_z == IF move_z # 0 THEN 0 ELSE (IF forward_z > 0 THEN 1 ELSE -1)
        moved == move(gs.current_piece, move_x, 0, move_z)
    IN  IF move_x # 0 \/ move_z # 0
        THEN IF check_collision(gs, moved.position)
             THEN TryMove([gs EXCEPT !.current_piece = move(moved, -move_x, 0, -move_z)],
                          alt_move_x, alt_move_z)
             ELSE [gs EXCEPT !.current_piece = moved]
        ELSE gs

\* A variant of special_keys below that does not look at the mode.
special_keys_AnyMode(gs, mode, key, yaw) ==
    IF ~gs.game_over /\ gs.current_piece # NoPiece
    THEN LET forward_x == Round(Sin(yaw))
             forward_z == Round(-Cos(yaw))
             right_x   == Round(Cos(yaw))
             right_z   == Round(Sin(yaw))
         IN  CASE key = "up"    -> TryMove(gs, forward_x, forward_z)
               [] key = "down"  -> TryMove(gs, -forward_x, -forward_z)
               [] key = "left"  -> TryMove(gs, -right_x, -right_z)
               [] key = "right" -> TryMove(gs, right_x, right_z)
    ELSE gs

\* special_keys for the four arrow keys.
special_keys(gs, mode, key, yaw) ==
    IF mode = STATE_PLAYING /\ ~gs.game_over /\ gs.current_piece # NoPiece
    THEN LET forward_x == Round(Sin(yaw))
             forward_z == Round(-Cos(yaw))
             right_x   == Round(Cos(yaw))
             right_z   == Round(Sin(yaw))
         IN  CASE key = "up"    -> TryMove(gs, forward_x, forward_z)
               [] key = "down"  -> TryMove(gs, -forward_x, -forward_z)
               [] key = "left"  -> TryMove(gs, -right_x, -right_z)
               [] key = "right" -> TryMove(gs, right_x, right_z)
    ELSE gs

\* The piece after n calls of rotate(axis).
RECURSIVE RotateTimes(_, _, _)
RotateTimes(p, axis, n) == IF n = 0 THEN p ELSE RotateTimes(rotate(p, axis), axis, n - 1)

\* A variant of the rotation below that restores the position alone.
TryRotate_PositionOnly(gs, axis, n) ==
    LET original_position == gs.current_piece.position
        rotated == RotateTimes(gs.current_piece, axis, n)
    IN  [gs EXCEPT !.current_piece = [rotated EXCEPT !.position = original_position]]

\* The rotation branch of keyboard: rotate, and on a collision put back
\* original_position and original_shape.
TryRotate(gs, axis, n) ==
    LET original_position == gs.current_piece.position
        original_shape    == gs.current_piece.shape
        rotated == RotateTimes(gs.current_piece, axis, n)
    IN  IF CollisionFrom(gs.grid, rotated.shape, rotated.position, 1)
        THEN [gs EXCEPT !.current_piece =
                 [rotated EXCEPT !.position = original_position, !.shape = original_shape]]
        ELSE [gs EXCEPT !.current_piece = rotated]

\* A variant of the falling loop below that descends by one cell at most.
DropPiece_OneCell(gs, p) ==
    LET moved == move(p, 0, -1, 0)
    IN  IF check_collision(gs, moved.position) THEN p ELSE moved

\* One pass of a falling loop: the piece is moved down until that collides,
\* and put back on old_pos.
RECURSIVE DropPiece(_, _)
DropPiece(gs, p) ==
    LET old_pos == p.position
        moved   == move(p, 0, -1, 0)
    IN  IF check_collision(gs, moved.position)
        THEN [moved EXCEPT !.position = old_pos]
        ELSE DropPiece(gs, moved)

\* A variant of set_mode below that resets game_over on entering
\* STATE_GAME_OVER as well.
set_mode_ResetsOver(gs, new_mode) ==
    IF new_mode = STATE_GAME_OVER
    THEN LET a == add_score(gs.highscores, gs.score)
         IN  [gs EXCEPT !.highscores = a.highscores, !.is_new_highscore = a.is_high_score,
                        !.game_over = FALSE]
    ELSE IF new_mode = STATE_MAIN_MENU
    THEN [reset_grid(gs) EXCEPT !.score = 0, !.game_over = FALSE, !.last_piece = NoPiece,
                                !.current_piece = NoPiece, !.next_piece = NoPiece]
    ELSE gs

\* set_mode, its effect on game_state (current_mode is set by the caller).
set_mode(gs, new_mode) ==
    IF new_mode = STATE_GAME_OVER
    THEN LET a == add_score(gs.highscores, gs.score)
         IN  [gs EXCEPT !.highscores = a.highscores, !.is_new_highscore = a.is_high_score]
    ELSE IF new_mode = STATE_MAIN_MENU
    THEN [reset_grid(gs) EXCEPT !.score = 0, !.game_over = FALSE, !.last_piece = NoPiece,
                                !.current_piece = NoPiece, !.next_piece = NoPiece]
    ELSE gs

\* What a callback leaves: the engine, the mode, why the process ended (if it
\* did), and for the history the bag window and the number of locks.
Result(gs, mode, why, win, nlocks) ==
    [gs |-> gs, mode |-> mode, halted |-> why, win |-> win, locks |-> nlocks]

\* A variant of the start below that enters STATE_PAUSED.
StartGame_Paused(gs, mode, perm, win) ==
    LET g0 == [reset_grid(gs) EXCEPT !.score = 0, !.game_over = FALSE,
                                     !.current_piece = NoPiece, !.next_piece = NoPiece]
    IN  Result([spawn_new_piece(g0, perm) EXCEPT !.is_new_highscore = FALSE],
               IF spawn_raises(g0) THEN mode ELSE STATE_PAUSED,
               IF spawn_raises(g0) THEN "IndexError" ELSE "", WinSpawn(win, g0, perm), 0)

\* The start of a game: the S branch in the menu, the R branch after game
\* over (which also clears is_new_highscore after the spawn).
StartGame(gs, mode, perm, win) ==
    LET g0 == [reset_grid(gs) EXCEPT !.score = 0, !.game_over = FALSE,
                                     !.current_piece = NoPiece, !.next_piece = NoPiece]
        g1 == spawn_new_piece(g0, perm)
    IN  IF spawn_raises(g0)
        THEN Result(g1, mode, "IndexError", WinSpawn(win, g0, perm), 0)
        ELSE Result([g1 EXCEPT !.is_new_highscore = FALSE], STATE_PLAYING, "",
                    WinSpawn(win, g0, perm), 0)

MoveKeys   == {"w", "a", "s", "d"}
RotateKeys == {"q", "e", "r"}
\* The other keys are "p", " ", "esc", "enter" and "x", which stands for
\* every key the program gives no meaning (m, 6, 7, 8 only reach the music
\* player).  Upper and lower case are treated alike.
ArrowKeys == {"up", "down", "left", "right"}

\* keyboard(key, x, y)
keyboard(gs, mode, key, yaw, perm, win) ==
    IF key = "p" /\ mode = STATE_PLAYING THEN Result(gs, STATE_PAUSED, "", win, 0)
    ELSE IF key = "p" /\ mode = STATE_PAUSED THEN Result(gs, STATE_PLAYING, "", win, 0)
    ELSE IF mode = STATE_PLAYING /\ ~gs.game_over /\ key = " " /\ gs.current_piece # NoPiece
    THEN LET landed == [gs EXCEPT !.current_piece = DropPiece(gs, gs.current_piece)]
         IN  Result(lock_piece_and_clear(landed, perm), mode, "", WinSpawn(win, gs, perm), 1)
    ELSE IF mode = STATE_PLAYING /\ ~gs.game_over /\ gs.current_piece # NoPiece
    THEN IF key \in MoveKeys THEN Result(handle_wasd(gs, key, yaw), mode, "", win, 0)
         ELSE IF key = "q" THEN Result(TryRotate(gs, 1, 1), mode, "", win, 0)
         ELSE IF key = "e" THEN Result(TryRotate(gs, 1, 3), mode, "", win, 0)
         ELSE IF key = "r" THEN Result(TryRotate(gs, 2, 1), mode, "", win, 0)
         ELSE Result(gs, mode, "", win, 0)
    ELSE IF key = "esc"
    THEN IF mode \in {STATE_PLAYING, STATE_PAUSED, STATE_GAME_OVER}
         THEN Result(set_mode(gs, STATE_MAIN_MENU), STATE_MAIN_MENU, "", win, 0)
         ELSE Result(gs, mode, "exit", win, 0)
    ELSE IF mode = STATE_LOADING
    THEN IF key = "enter"
         THEN Result(set_mode(gs, STATE_MAIN_MENU), STATE_MAIN_MENU, "", win, 0)
         ELSE Result(gs, mode, "", win, 0)
    ELSE IF mode = STATE_MAIN_MENU
    THEN IF key = "s" THEN StartGame(gs, mode, perm, win) ELSE Result(gs, mode, "", win, 0)
    ELSE IF mode = STATE_PLAYING
    THEN IF gs.game_over
         THEN Result(set_mode(gs, STATE_GAME_OVER), STATE_GAME_OVER, "", win, 0)
         ELSE Result(gs, mode, "", win, 0)
    ELSE IF mode = STATE_GAME_OVER
    THEN IF key = "r" THEN StartGame(gs, mode, perm, win) ELSE Result(gs, mode, "", win, 0)
    ELSE Result(gs, mode, "", win, 0)

\* game_loop(value) with delta_time = delta: the engine, the mode and the
\* accumulator it leaves.
game_loop(gs, mode, acc, delta, perm, win) ==
    IF mode = STATE_PLAYING /\ ~gs.game_over
    THEN LET a == acc + delta
         IN  IF a >= FALL_INTERVAL_MS
             THEN IF gs.current_piece # NoPiece
                  THEN LET moved == move(gs.current_piece, 0, -1, 0)
                       IN  IF check_collision(gs, moved.position)
                           THEN LET g1 == lock_piece_and_clear(gs, perm)
                                    r  == IF g1.game_over
                                          THEN Result(set_mode(g1, STATE_GAME_OVER),
                                                      STATE_GAME_OVER, "", WinSpawn(win, gs, perm), 1)
                                          ELSE Result(g1, mode, "", WinSpawn(win, gs, perm), 1)
                                IN  [r |-> r, acc |-> a - FALL_INTERVAL_MS]
                           ELSE [r |-> Result([gs EXCEPT !.current_piece = moved], mode, "", win, 0),
                                 acc |-> a - FALL_INTERVAL_MS]
                  ELSE [r |-> Result(gs, mode, "", win, 0), acc |-> a - FALL_INTERVAL_MS]
             ELSE [r |-> Result(gs, mode, "", win, 0), acc |-> a]
    ELSE [r |-> Result(gs, mode, "", win, 0), acc |-> acc]

\* A variant of the probe below that leaves the piece on the last test
\* position.
FindLandingFrom_NoRestore(gs, test_y) ==
    IF test_y > 0
    THEN LET current_pos == gs.current_piece.position
             test_pos == <<current_pos[1], test_y - 1, current_pos[3]>>
         IN  [gs |-> [gs EXCEPT !.current_piece.position = test_pos], landing_y |-> test_y]
    ELSE [gs |-> gs, landing_y |-> 0]

\* find_landing_position: the current piece is put on each test position
\* in turn and put back on current_pos; test_y is test_pos[1].
RECURSIVE FindLandingFrom(_, _)
FindLandingFrom(gs, test_y) ==
    IF test_y > 0
    THEN LET current_pos == gs.current_piece.position
             test_pos == <<current_pos[1], test_y - 1, current_pos[3]>>
             probing  == [gs EXCEPT !.current_piece.position = test_pos]
             restored == [probing EXCEPT !.current_piece.position = current_pos]
         IN  IF check_collision(probing, test_pos)
             THEN [gs |-> restored, landing_y |-> test_pos[2] + 1]
             ELSE FindLandingFrom(restored, test_y - 1)
    ELSE [gs |-> gs, landing_y |-> 0]

find_landing_position(gs) ==
    IF gs.current_piece = NoPiece THEN [gs |-> gs, landing_y |-> 0]
    ELSE FindLandingFrom(gs, gs.current_piece.position[2])

\* draw_scene_3d, its effect on the engine: draw_grid probes the landing
\* position when there is a current piece and the game is not over.
draw_scene_3d(gs) ==
    IF gs.current_piece # NoPiece /\ ~gs.game_over THEN find_landing_position(gs).gs ELSE gs

\* The demo's drop: down while the piece does not collide, then up by one.
RECURSIVE DemoDrop(_, _)
DemoDrop(gs, p) ==
    IF check_collision(gs, p.position) THEN move(p, 0, 1, 0)
    ELSE DemoDrop(gs, move(p, 0, -1, 0))

\* What the demo may draw at random in one display call: an action (or
\* none, random.random() >= 0.02) and whether the periodic fall is due.
DemoActs ==
    {[act |-> "none", dx |-> 0, dz |-> 0, axis |-> 0]}
    \cup {[act |-> "move", dx |-> d[1], dz |-> d[2], axis |-> 0] :
             d \in {<<1, 0>>, <<-1, 0>>, <<0, 1>>, <<0, -1>>}}
    \cup {[act |-> "rotate", dx |-> 0, dz |-> 0, axis |-> a] : a \in {0, 1, 2}}
    \cup {[act |-> "drop", dx |-> 0, dz |-> 0, axis |-> 0]}

\* "Setup demo game if needed" / "Reset if game over": perm2 is the shuffled bag.
DemoReset(gs, perm2) ==
    [spawn_new_piece([reset_grid(gs) EXCEPT !.piece_bag = perm2], perm2)
        EXCEPT !.game_over = FALSE]

\* "Make random moves"
DemoAct(gs, c, perm) ==
    IF c.act = "move" THEN TryMove(gs, c.dx, c.dz)
    ELSE IF c.act = "rotate" THEN [gs EXCEPT !.current_piece = rotate(gs.current_piece, c.axis)]
    ELSE IF c.act = "drop"
    THEN lock_piece_and_clear([gs EXCEPT !.current_piece = DemoDrop(gs, gs.current_piece)], perm)
    ELSE gs

\* "Normal falling"; lands says whether the piece locks.
DemoLands(gs) == check_collision(gs, move(gs.current_piece, 0, -1, 0).position)
DemoFall(gs, perm) ==
    IF DemoLands(gs) THEN lock_piece_and_clear(gs, perm)
    ELSE [gs EXCEPT !.current_piece = move(gs.current_piece, 0, -1, 0)]

\* display(): the engine it leaves.  In the menu it runs the demo; c and
\* fall are the demo's random draws, perm and perm2 the shuffles.
display(gs, mode, c, fall, perm, perm2, win) ==
    IF mode = STATE_MAIN_MENU
    THEN LET setup == gs.current_piece = NoPiece
             g0 == IF setup THEN DemoReset(gs, perm2) ELSE gs
             w0 == IF setup
                   THEN WinSpawn(WinRefill(win), [reset_grid(gs) EXCEPT !.piece_bag = perm2], perm2)
                   ELSE win
             g1 == DemoAct(g0, c, perm)
             w1 == IF c.act = "drop" THEN WinSpawn(w0, g0, perm) ELSE w0
             g2 == IF fall THEN DemoFall(g1, perm) ELSE g1
             w2 == IF fall /\ DemoLands(g1) THEN WinSpawn(w1, g1, perm) ELSE w1
             g3 == IF g2.game_over THEN DemoReset(g2, perm2) ELSE g2
             w3 == IF g2.game_over
                   THEN WinSpawn(WinRefill(w2), [reset_grid(g2) EXCEPT !.piece_bag = perm2], perm2)
                   ELSE w2
         IN  Result(draw_scene_3d(g3), mode, "", w3,
                    (IF c.act = "drop" THEN 1 ELSE 0) + (IF fall /\ DemoLands(g1) THEN 1 ELSE 0))
    ELSE IF mode \in {STATE_PLAYING, STATE_PAUSED, STATE_GAME_OVER}
    THEN Result(draw_scene_3d(gs), mode, "", win, 0)
    ELSE Result(gs, mode, "", win, 0)

----------------------------------------------------------------------------
(* The program as a state machine                                          *)

\* GameState.__init__ with no high-score file, and the module's globals;
\* main() enters STATE_LOADING.
InitialGameState ==
    [grid |-> EmptyGrid, score |-> 0, game_over |-> FALSE,
     last_piece |-> NoPiece, current_piece |-> NoPiece, next_piece |-> NoPiece,
     highscores |-> <<>>, is_new_highscore |-> FALSE, piece_bag |-> <<>>]

Init ==
    /\ game_state = InitialGameState
    /\ current_mode = STATE_LOADING
    /\ time_accumulator_fall = 0
    /\ camera_rot_y = -45
    /\ halted = ""
    /\ last = [op |-> "init", from |-> STATE_LOADING, locks |-> 0, changed |-> FALSE]
    /\ window = <<>>
    /\ inputs = 0
    /\ ret = [op |-> "none"]

\* The engine is advancing a falling piece.
Falling == current_mode = STATE_PLAYING /\ ~game_state.game_over

\* A callback has returned r: the new state, and the history of it.  The
\* history notes a call that is counted, changes the engine or ends the
\* process; a call that does none of these (pause and resume among them)
\* leaves it alone.  A counted call needs room in the budget.
Returns(r, op, counted, budget) ==
    /\ counted => inputs < budget
    /\ r.locks > 0 => Len(game_state.highscores) < MaxGames
    /\ game_state' = r.gs
    /\ current_mode' = r.mode
    /\ halted' = r.halted
    /\ window' = r.win
    /\ inputs' = IF counted THEN inputs + 1 ELSE inputs
    /\ last' = IF counted \/ r.gs # game_state \/ r.halted # halted
               THEN [op |-> op, from |-> current_mode, locks |-> r.locks,
                     changed |-> r.gs # game_state]
               ELSE last

\* GLUT calls keyboard(key, x, y).
KeyPress(key, counted, budget) ==
    /\ \E perm \in Shuffles :
          Returns(keyboard(game_state, current_mode, key, camera_rot_y, perm, window), key,
                  counted, budget)
    /\ UNCHANGED <<time_accumulator_fall, camera_rot_y, ret>>

\* GLUT calls special_keys(key, x, y).
ArrowPress(key, counted, budget) ==
    /\ Returns(Result(special_keys(game_state, current_mode, key, camera_rot_y),
                      current_mode, "", window, 0), key, counted, budget)
    /\ UNCHANGED <<time_accumulator_fall, camera_rot_y, ret>>

\* The timer calls game_loop(0) after delta milliseconds.
Tick(delta, counted, budget) ==
    \E perm \in Shuffles :
        LET t == game_loop(game_state, current_mode, time_accumulator_fall, delta, perm, window)
        IN  /\ Returns(t.r, "tick", counted, budget)
            /\ time_accumulator_fall' = t.acc
            /\ UNCHANGED <<camera_rot_y, ret>>

\* P: pause and resume.
KeyPause == halted = "" /\ KeyPress("p", FALSE, MaxInputs)

\* Space: hard drop.
KeySpace == halted = "" /\ KeyPress(" ", FALSE, MaxInputs)

KeyEsc == halted = "" /\ KeyPress("esc", FALSE, MaxInputs)

KeyEnter == halted = "" /\ KeyPress("enter", FALSE, MaxInputs)

KeyOther == halted = "" /\ KeyPress("x", FALSE, MaxInputs)

\* W, A, S, D: a lateral move while a piece falls (counted); S also starts
\* a game.
KeyMove == halted = "" /\ \E key \in MoveKeys : KeyPress(key, Falling, MaxInputs)

\* Q, E, R: a rotation while a piece falls (counted); R also restarts after
\* game over.
KeyRotate == halted = "" /\ \E key \in RotateKeys : KeyPress(key, Falling, MaxInputs)

\* An arrow key, counted while a piece falls.
SpecialKey == halted = "" /\ \E key \in ArrowKeys : ArrowPress(key, Falling, MaxInputs)

\* The elapsed times the timer callback may see, in milliseconds.
Deltas == {250, 500, 1000}

\* A timer tick, counted while a piece falls.
GameLoop == halted = "" /\ \E delta \in Deltas : Tick(delta, Falling, MaxInputs)

Display ==
    \E c \in DemoActs : \E fall \in BOOLEAN : \E perm \in Shuffles : \E perm2 \in Shuffles :
        LET acts == current_mode = STATE_MAIN_MENU /\ (c.act # "none" \/ fall)
        IN  /\ halted = ""
            /\ current_mode # STATE_MAIN_MENU => (c.act = "none" /\ ~fall)
            /\ Returns(display(game_state, current_mode, c, fall, perm, perm2, window),
                       "display", acts, MaxInputs)
            /\ UNCHANGED <<time_accumulator_fall, camera_rot_y, ret>>

\* mouse_motion while the left button is down: dx pixels turn the camera
\* by dx * 0.3 degrees.
Drags == {-450, -300, -150, 150, 300, 450}

MouseMotion ==
    \E dx \in Drags :
        /\ halted = ""
        /\ inputs < MaxInputs
        /\ camera_rot_y + (3 * dx) \div 10 \in Yaws
        /\ camera_rot_y' = camera_rot_y + (3 * dx) \div 10
        /\ inputs' = inputs + 1
        /\ UNCHANGED <<game_state, current_mode, time_accumulator_fall, halted, last, window, ret>>

Next ==
    \/ KeyPause
    \/ KeySpace
    \/ KeyEsc
    \/ KeyEnter
    \/ KeyOther
    \/ KeyMove
    \/ KeyRotate
    \/ SpecialKey
    \/ GameLoop
    \/ Display
    \/ MouseMotion

Spec == Init /\ [][Next]_vars

----------------------------------------------------------------------------
(* Play on its own: a game that was started and has had some hard drops,   *)
(* then keys and ticks in Playing mode, each of them counted                *)

\* What keyboard leaves after k more presses of the space bar.
RECURSIVE AfterDrops(_, _, _)
AfterDrops(r, k, perm) ==
    IF k = 0 THEN r
    ELSE AfterDrops(keyboard(r.gs, r.mode, " ", -45, perm, r.win), k - 1, perm)

InitPlay ==
    \E k \in {0, MaxDrops - 1, MaxDrops} : \E perm \in Shuffles :
        LET r == AfterDrops(StartGame(InitialGameState, STATE_MAIN_MENU, perm, <<>>), k, perm)
        IN  /\ game_state = r.gs
            /\ current_mode = r.mode
            /\ window = r.win
            /\ last = [op |-> IF k = 0 THEN "s" ELSE " ",
                       from |-> IF k = 0 THEN STATE_MAIN_MENU ELSE STATE_PLAYING,
                       locks |-> IF k = 0 THEN 0 ELSE 1, changed |-> TRUE]
            /\ time_accumulator_fall = 0
            /\ camera_rot_y \in Yaws
            /\ halted = ""
            /\ inputs = 0
            /\ ret = [op |-> "none"]

PlayKey ==
    halted = "" /\ \E key \in MoveKeys \cup RotateKeys \cup {" "} : KeyPress(key, TRUE, MaxMoves)

PlayArrow == halted = "" /\ \E key \in ArrowKeys : ArrowPress(key, TRUE, MaxMoves)

PlayTick == halted = "" /\ \E delta \in Deltas : Tick(delta, TRUE, MaxMoves)

NextPlay == PlayKey \/ PlayArrow \/ PlayTick

SpecPlay == InitPlay /\ [][NextPlay]_vars

----------------------------------------------------------------------------
(* check_collision on its own: a grid with a few occupied cells, a catalog *)
(* piece that is rotated, and the function applied to an anchor             *)

\* The cells that may be occupied: around the spawn anchor.
ProbeCells == {<<4, 17, 4>>, <<5, 17, 4>>, <<4, 18, 5>>}
\* The anchors tried: inside the grid, on its faces and outside.
Anchors == {<<x, y, z>> : x \in {-1, 0, 4, 7}, y \in {0, 17, 19}, z \in {0, 4, 8}}

GridWith(cells) ==
    [x \in 0..GRID_X-1 |-> [y \in 0..GRID_Y-1 |-> [z \in 0..GRID_Z-1 |->
        IF <<x, y, z>> \in cells THEN CYBER_COLORS[1] ELSE None]]]

\* The variables a function call does not touch.
Idle ==
    /\ current_mode = STATE_PLAYING
    /\ time_accumulator_fall = 0
    /\ camera_rot_y = -45
    /\ halted = ""
    /\ last = [op |-> "init", from |-> STATE_LOADING, locks |-> 0, changed |-> FALSE]
    /\ window = <<>>

InitCollision ==
    /\ game_state \in
          {[InitialGameState EXCEPT !.grid = GridWith(cells),
                                    !.current_piece = NewPiece(i), !.next_piece = NewPiece(i)] :
              cells \in {c \in SUBSET ProbeCells : Cardinality(c) <= MaxCells},
              i \in 0..NumShapes-1}
    /\ Idle
    /\ inputs = 0
    /\ ret = [op |-> "none"]

\* Tetromino.rotate on the current piece.
RotatePiece ==
    \E axis \in 0..2 :
        /\ ret.op = "none"
        /\ inputs < MaxTurns
        /\ game_state' = [game_state EXCEPT !.current_piece = rotate(@, axis)]
        /\ inputs' = inputs + 1
        /\ UNCHANGED <<current_mode, time_accumulator_fall, camera_rot_y, halted, last, window, ret>>

\* game_state.check_collision(position)
CheckCollision ==
    \E position \in Anchors :
        /\ ret.op = "none"
        /\ ret' = [op |-> "check_collision", position |-> position,
                   value |-> check_collision(game_state, position)]
        /\ UNCHANGED <<game_state, current_mode, time_accumulator_fall, camera_rot_y, halted,
                       last, window, inputs>>

NextCollision == RotatePiece \/ CheckCollision

SpecCollision == InitCollision /\ [][NextCollision]_vars

----------------------------------------------------------------------------
(* lock_piece_and_clear on its own: the lowest MaxLayers layers are drawn  *)
(* full, partly filled or empty, and a piece is locked                      *)

LayerKinds == {"full", "partial", "empty"}

\* A layer of the drawn grid at column x.  A partly filled layer y holds
\* y % GRID_Z + 1 cells of one colour, so that layers can be told apart;
\* the cells where the piece lies are left empty.
DrawnLayer(kinds, hole, x, y) ==
    IF y >= MaxLayers \/ kinds[y] = "empty" \/ (kinds[y] = "partial" /\ x # GRID_X - 1)
    THEN [z \in 0..GRID_Z-1 |-> None]
    ELSE [z \in 0..GRID_Z-1 |->
            IF <<x, y, z>> \in hole \/ (kinds[y] = "partial" /\ z > y % GRID_Z)
            THEN None ELSE ColorAt(y % NumShapes)]

\* The pieces locked: the long piece lying in layer 0, the cube on the
\* spawn anchor.
LockPieces == {[NewPiece(0) EXCEPT !.position = <<0, 0, 0>>], NewPiece(1)}

InitLock ==
    /\ game_state \in
          {[InitialGameState EXCEPT
                !.grid = [x \in 0..GRID_X-1 |-> [y \in 0..GRID_Y-1 |->
                             DrawnLayer(kinds, CellsOf(p), x, y)]],
                !.current_piece = p, !.next_piece = NewPiece(2), !.score = 250,
                !.piece_bag = <<3, 4>>] :
              kinds \in [0..MaxLayers-1 -> LayerKinds], p \in LockPieces}
    /\ Idle
    /\ inputs = 0
    /\ ret = [op |-> "none"]

\* game_state.lock_piece_and_clear(); the history keeps the state before,
\* the grid after the locking loop and the layers_cleared counted.
LockPiece ==
    \E perm \in Shuffles :
        LET p == game_state.current_piece
            locked == LockFrom(game_state.grid, p.shape, p.position, p.color, 1)
        IN  /\ ret.op = "none"
            /\ game_state' = lock_piece_and_clear(game_state, perm)
            /\ ret' = [op |-> "lock", before |-> game_state, locked |-> locked,
                       layers_cleared |-> ClearLayers(locked).layers_cleared]
            /\ UNCHANGED <<current_mode, time_accumulator_fall, camera_rot_y, halted, last,
                           window, inputs>>

NextLock == LockPiece

SpecLock == InitLock /\ [][NextLock]_vars

----------------------------------------------------------------------------
(* rotate on its own: a catalog piece turned again and again about the     *)
(* three axes                                                              *)

InitRotate ==
    /\ game_state \in {[InitialGameState EXCEPT !.current_piece = NewPiece(i)] :
                          i \in 0..NumShapes-1}
    /\ Idle
    /\ inputs = 0
    /\ ret = [op |-> "none"]

\* game_state.current_piece.rotate(axis)
Rotate ==
    \E axis \in 0..2 :
        /\ game_state' = [game_state EXCEPT !.current_piece = rotate(@, axis)]
        /\ ret' = [op |-> "rotate", axis |-> axis, before |-> game_state.current_piece.shape]
        /\ UNCHANGED <<current_mode, time_accumulator_fall, camera_rot_y, halted, last, window,
                       inputs>>

NextRotate == Rotate

SpecRotate == InitRotate /\ [][NextRotate]_vars

----------------------------------------------------------------------------
(* The loading screen on its own: the timer goes on calling game_loop,     *)
(* keys may be pressed, and ret holds what glutGet(GLUT_ELAPSED_TIME)      *)
(* returned to the last tick, counted from loading_start_time              *)

InitLoading ==
    /\ game_state = InitialGameState
    /\ current_mode = STATE_LOADING
    /\ time_accumulator_fall = 0
    /\ camera_rot_y = -45
    /\ halted = ""
    /\ last = [op |-> "init", from |-> STATE_LOADING, locks |-> 0, changed |-> FALSE]
    /\ window = <<>>
    /\ inputs = 0
    /\ ret = [op |-> "glutGet", value |-> 0]

\* game_loop called by the timer while the loading screen is shown, delta
\* milliseconds after the last call.  In STATE_LOADING the call changes
\* previous_time and nothing else, so once the elapsed time has passed
\* MaxElapsed a further tick leaves every variable as it is.
LoadingTick ==
    \E delta \in Deltas \cup {TIMER_PERIOD_MS} : \E perm \in Shuffles :
        LET t == game_loop(game_state, current_mode, time_accumulator_fall, delta, perm, window)
            now == ret.value + delta
        IN  /\ halted = ""
            /\ current_mode = STATE_LOADING
            /\ Returns(t.r, "tick", FALSE, MaxInputs)
            /\ time_accumulator_fall' = t.acc
            /\ ret' = [ret EXCEPT !.value = IF now > MaxElapsed THEN MaxElapsed ELSE now]
            /\ UNCHANGED camera_rot_y

\* A key pressed while the loading screen is shown.
LoadingKey ==
    /\ halted = ""
    /\ current_mode = STATE_LOADING
    /\ \E key \in {"enter", "esc", "x", "s", " "} : KeyPress(key, FALSE, MaxInputs)

NextLoading == LoadingTick \/ LoadingKey

\* glutTimerFunc(16, game_loop, 0) at the end of every game_loop call keeps
\* the timer running for as long as the process lives.
SpecLoading == InitLoading /\ [][NextLoading]_vars /\ WF_vars(LoadingTick)

----------------------------------------------------------------------------
(* add_score on its own: scores are submitted one after the other to a     *)
(* list that starts empty; ret holds the last call and how often each      *)
(* score has been submitted                                                *)

\* The scores submitted.
Scores == {0, 40, 80, 540}

InitScores ==
    /\ game_state = InitialGameState
    /\ Idle
    /\ inputs = 0
    /\ ret = [op |-> "none", score |-> 0, value |-> FALSE, before |-> <<>>,
              submitted |-> [v \in Scores |-> 0]]

\* game_state.highscore_manager.add_score(score)
AddScore ==
    \E score \in Scores :
        LET a == add_score(game_state.highscores, score)
        IN  /\ inputs < MaxScores
            /\ game_state' = [game_state EXCEPT !.highscores = a.highscores,
                                                !.is_new_highscore = a.is_high_score]
            /\ ret' = [op |-> "add_score", score |-> score, value |-> a.is_high_score,
                       before |-> game_state.highscores,
                       submitted |-> [ret.submitted EXCEPT ![score] = @ + 1]]
            /\ inputs' = inputs + 1
            /\ UNCHANGED <<current_mode, time_accumulator_fall, camera_rot_y, halted, last, window>>

NextScores == AddScore

SpecScores == InitScores /\ [][NextScores]_vars

----------------------------------------------------------------------------
(* The fall of a piece: timer ticks without number, and up to MaxMoves     *)
(* lateral moves and rotations between any of them, until the piece is     *)
(* locked                                                                  *)

\* The time between two timer calls: half a fall interval, a whole one.
FallDeltas == {FALL_INTERVAL_MS \div 2, FALL_INTERVAL_MS}

InitFall ==
    \E k \in {0, MaxDrops - 1} : \E perm \in Shuffles :
        LET r == AfterDrops(StartGame(InitialGameState, STATE_MAIN_MENU, perm, <<>>), k, perm)
        IN  /\ game_state = r.gs
            /\ current_mode = r.mode
            /\ window = r.win
            /\ last = [op |-> IF k = 0 THEN "s" ELSE " ",
                       from |-> IF k = 0 THEN STATE_MAIN_MENU ELSE STATE_PLAYING,
                       locks |-> IF k = 0 THEN 0 ELSE 1, changed |-> TRUE]
            /\ time_accumulator_fall = 0
            /\ camera_rot_y \in Yaws
            /\ halted = ""
            /\ inputs = 0
            /\ ret = [op |-> "fall", locks |-> 0]

\* A callback has returned r while the piece falls; the history counts the
\* locks.
FallReturns(r, op, counted) ==
    /\ Falling
    /\ ret.locks < MaxLocks
    /\ Returns(r, op, counted, MaxMoves)
    /\ ret' = [ret EXCEPT !.locks = @ + r.locks]

\* W, A, S, D, Q, E or R while the piece falls.
FallKey ==
    \E key \in MoveKeys \cup RotateKeys : \E perm \in Shuffles :
        /\ FallReturns(keyboard(game_state, current_mode, key, camera_rot_y, perm, window), key,
                       TRUE)
        /\ UNCHANGED <<time_accumulator_fall, camera_rot_y>>

\* An arrow key while the piece falls.
FallArrow ==
    \E key \in ArrowKeys :
        /\ FallReturns(Result(special_keys(game_state, current_mode, key, camera_rot_y),
                              current_mode, "", window, 0), key, TRUE)
        /\ UNCHANGED <<time_accumulator_fall, camera_rot_y>>

\* The timer calls game_loop(0) while the piece falls.  The handler is
\* written out with its intermediate values bound one after the other, as
\* the code computes them: the accumulator, the piece moved down, the grid
\* after the locking loop, after the layer clearing, and the engine after
\* lock_piece_and_clear.
FallTick ==
    \E delta \in FallDeltas : \E perm \in Shuffles :
    \E acc \in {time_accumulator_fall + delta} :
        /\ time_accumulator_fall' = IF acc >= FALL_INTERVAL_MS THEN acc - FALL_INTERVAL_MS ELSE acc
        /\ UNCHANGED camera_rot_y
        /\ IF acc < FALL_INTERVAL_MS \/ game_state.current_piece = NoPiece
           THEN FallReturns(Result(game_state, current_mode, "", window, 0), "tick", FALSE)
           ELSE
           \E moved \in {move(game_state.current_piece, 0, -1, 0)} :
               IF ~check_collision(game_state, moved.position)
               THEN FallReturns(Result([game_state EXCEPT !.current_piece = moved],
                                       current_mode, "", window, 0), "tick", FALSE)
               ELSE
               \E locked \in {LockFrom(game_state.grid, game_state.current_piece.shape,
                                       game_state.current_piece.position,
                                       game_state.current_piece.color, 1)} :
               \E cleared \in {ClearLayers(locked)} :
               \E g1 \in {[game_state EXCEPT
                             !.grid = cleared.grid,
                             !.last_piece = clone(game_state.current_piece),
                             !.score = game_state.score + LayerBonus(cleared.layers_cleared)
                                          + PlacementBonus(game_state.current_piece.shape)]} :
               \E g2 \in {spawn_new_piece(g1, perm)} :
               \E win \in {WinSpawn(window, game_state, perm)} :
                   IF g2.game_over
                   THEN FallReturns(Result(set_mode(g2, STATE_GAME_OVER), STATE_GAME_OVER,
                                           "", win, 1), "tick", FALSE)
                   ELSE FallReturns(Result(g2, current_mode, "", win, 1), "tick", FALSE)

NextFall == FallKey \/ FallArrow \/ FallTick

\* game_loop registers itself again with glutTimerFunc at the end of every
\* call, so the timer keeps calling it.
SpecFall == InitFall /\ [][NextFall]_vars /\ WF_vars(FallTick)

----------------------------------------------------------------------------
(* Properties of the running program (specification Spec)                 *)

\* What the playfield says about a cell.
InGrid(c) ==
    /\ 0 <= c[1] /\ c[1] < GRID_X
    /\ 0 <= c[2] /\ c[2] < GRID_Y
    /\ 0 <= c[3] /\ c[3] < GRID_Z
IsFree(grid, c) == InGrid(c) /\ grid[c[1]][c[2]][c[3]] = None
CollisionFree(gs) ==
    /\ gs.current_piece # NoPiece
    /\ \A c \in CellsOf(gs.current_piece) : IsFree(gs.grid, c)

\* C1: in Playing mode with game_over false, after any handler has returned
\* (WASD or arrow move, rotation, gravity step, hard drop) every absolute
\* cell of the current piece lies inside the grid and on an empty cell.
C1_PieceCollisionFree == Falling => CollisionFree(game_state)

\* C1, its case: the right arrow is pressed while the cells to the right of
\* the piece are inside the grid and one of them is occupied; the move is
\* refused and the piece is left where it was.
C1_RefusedByStack ==
    LET target == move(game_state.current_piece, Round(Cos(camera_rot_y)), 0,
                       Round(Sin(camera_rot_y)))
    IN  /\ Falling
        /\ last.op = "right" /\ last.from = STATE_PLAYING /\ ~last.changed
        /\ \A c \in CellsOf(target) : InGrid(c)
        /\ \E c \in CellsOf(target) : ~IsFree(game_state.grid, c)

\* C2: check_collision(position) returns true if and only if at least one
\* absolute cell position + offset lies outside [0,8)x[0,20)x[0,8) or on an
\* occupied grid cell, for every shape (rotated ones with negative offsets
\* included), anchor and grid.
C2_CollisionIffBlockedCell ==
    ret.op = "check_collision" =>
        (ret.value <=>
            \E c \in CellsOf([game_state.current_piece EXCEPT !.position = ret.position]) :
                ~IsFree(game_state.grid, c))

\* C2, its case: a rotated shape with a negative offset, every cell inside
\* the grid, and a collision reported because a cell is occupied.
C2_OccupiedCellHit ==
    /\ ret.op = "check_collision" /\ ret.value
    /\ \E i \in 1..Len(game_state.current_piece.shape) :
          \E k \in 1..3 : game_state.current_piece.shape[i][k] < 0
    /\ \A c \in CellsOf([game_state.current_piece EXCEPT !.position = ret.position]) : InGrid(c)

\* The full layers of a grid, and its j-th layer (from 0) that is not full.
FullLayers(grid) ==
    {y \in 0..GRID_Y-1 : \A x \in 0..GRID_X-1 : \A z \in 0..GRID_Z-1 : grid[x][y][z] # None}
KeptLayer(full, j) ==
    CHOOSE y \in (0..GRID_Y-1) \ full :
        Cardinality({u \in (0..GRID_Y-1) \ full : u < y}) = j

\* C3: the layer-clearing phase counts exactly the full layers of the grid
\* left by the locking loop, and leaves the layers that were not full in
\* their order from the bottom, followed by that many empty layers on top.
C3_ClearKeepsOtherLayers ==
    ret.op = "lock" =>
        LET full == FullLayers(ret.locked)
            n == Cardinality(full)
        IN  /\ ret.layers_cleared = n
            /\ \A y \in 0..GRID_Y-1 :
                  IF y < GRID_Y - n
                  THEN LET k == KeptLayer(full, y)
                       IN  \A x \in 0..GRID_X-1 : game_state.grid[x][y] = ret.locked[x][k]
                  ELSE \A x \in 0..GRID_X-1 : \A z \in 0..GRID_Z-1 :
                           game_state.grid[x][y][z] = None

\* C3, its case: exactly layers 3 and 5 full, layers 4 and 6 partly filled;
\* two layers are counted and layer 6 is found in layer 4.
C3_LayersThreeAndFive ==
    /\ ret.op = "lock"
    /\ FullLayers(ret.locked) = {3, 5}
    /\ ret.layers_cleared = 2
    /\ ret.locked[GRID_X-1][4][0] # None
    /\ ret.locked[GRID_X-1][6][0] # None
    /\ \A x \in 0..GRID_X-1 : game_state.grid[x][4] = ret.locked[x][6]

\* The bonus for n cleared layers as the specification lists it.
ListedBonus(n) ==
    CASE n = 0 -> 0 [] n = 1 -> 100 [] n = 2 -> 300 [] n = 3 -> 500 [] n = 4 -> 800
      [] OTHER -> 100 * n

\* C4: a lock raises the score by exactly 10 for every cell of the locked
\* piece plus the bonus for the number n of layers it clears: 0, 100, 300,
\* 500, 800 for n = 0..4 and 100 * n for n > 4.
C4_ScoreGain ==
    ret.op = "lock" =>
        game_state.score - ret.before.score
            = 10 * Cardinality(CellsOf(ret.before.current_piece))
              + ListedBonus(Cardinality(FullLayers(ret.locked)))

\* C4, its case: a piece of 4 cells clears 5 layers and adds 540.
C4_FiveLayers ==
    /\ ret.op = "lock"
    /\ Cardinality(CellsOf(ret.before.current_piece)) = 4
    /\ Cardinality(FullLayers(ret.locked)) = 5
    /\ game_state.score = ret.before.score + 540

\* C5: no state between two handlers has mode Playing and game_over true:
\* a lock in Playing whose spawn collides leaves the mode GameOver as soon
\* as its handler returns, be it a gravity step or a hard drop.
C5_GameOverLeavesPlaying == ~(current_mode = STATE_PLAYING /\ game_state.game_over)

\* A step that changes the engine, and one that locked a piece in Playing.
EngineStep == game_state' # game_state
LockStep == EngineStep /\ last'.locks > 0 /\ last'.from = STATE_PLAYING
SpawnCollides(gs) ==
    /\ gs.current_piece.position = SpawnPosition
    /\ \E c \in CellsOf(gs.current_piece) : ~IsFree(gs.grid, c)

\* C6: game_over becomes true only in a step that locks a piece and spawns
\* the next one, and such a step leaves game_over true exactly when the
\* promoted piece collides on the spawn anchor (4,17,4); a start or
\* restart spawns without setting it.
C6_SoleGameOverTrigger ==
    [][/\ (~game_state.game_over /\ game_state'.game_over) => LockStep
       /\ LockStep => (game_state'.game_over <=> SpawnCollides(game_state'))
       /\ (EngineStep /\ last'.op \in {"s", "r"} /\ last'.locks = 0 /\ current_mode' = STATE_PLAYING)
             => ~game_state'.game_over]_vars

\* C6, its case: a lock in Playing has just ended the game, the promoted
\* piece colliding on the spawn anchor.
C6_GameOverAfterLock ==
    /\ game_state.game_over
    /\ last.locks = 1 /\ last.from = STATE_PLAYING
    /\ SpawnCollides(game_state)

\* C7: every draw of spawn_new_piece finds a non-empty bag, so a draw never
\* fails, whatever bag a start or a restart finds.
C7_DrawNeverFails == halted # "IndexError"

\* C8: the draws made since a refill, up to NumShapes of them, are pairwise
\* different: the bag is replaced only when it is empty, in play and in the
\* menu demo.
C8_WindowHasNoDuplicate ==
    \A i, j \in 1..Len(window) : i # j => window[i] # window[j]

\* The changes of mode the specification lists, and the two more the ESC
\* branch of keyboard makes.
ListedChanges ==
    {<<STATE_LOADING, STATE_MAIN_MENU>>, <<STATE_MAIN_MENU, STATE_PLAYING>>,
     <<STATE_PLAYING, STATE_PAUSED>>, <<STATE_PAUSED, STATE_PLAYING>>,
     <<STATE_PLAYING, STATE_GAME_OVER>>, <<STATE_GAME_OVER, STATE_PLAYING>>,
     <<STATE_GAME_OVER, STATE_MAIN_MENU>>}
EscChanges == {<<STATE_PAUSED, STATE_MAIN_MENU>>, <<STATE_PLAYING, STATE_MAIN_MENU>>}

\* C9 as stated: the mode changes only along Loading->MainMenu,
\* MainMenu->Playing, Playing->Paused, Paused->Playing, Playing->GameOver,
\* GameOver->Playing and GameOver->MainMenu.
C9_OnlyListedChanges ==
    [][current_mode' # current_mode => <<current_mode, current_mode'>> \in ListedChanges]_vars

\* C9 amended: the mode changes only along the listed transitions and
\* along Paused->MainMenu and Playing->MainMenu (ESC).
C9_ListedAndEscChanges ==
    [][current_mode' # current_mode
          => <<current_mode, current_mode'>> \in ListedChanges \cup EscChanges]_vars

\* C9, its case: ESC pressed in Paused mode has led to the main menu.
C9_PausedToMenu ==
    /\ current_mode = STATE_MAIN_MENU
    /\ last.op = "esc" /\ last.from = STATE_PAUSED

\* What a handled start or restart leaves according to C10.
Started(gs, mode) ==
    /\ mode = STATE_PLAYING
    /\ gs.grid = EmptyGrid
    /\ gs.score = 0
    /\ ~gs.game_over
    /\ gs.current_piece # NoPiece /\ gs.next_piece # NoPiece
    /\ \E i \in 0..NumShapes-1 : gs.current_piece.shape = ShapeAt(i)
    /\ \E i \in 0..NumShapes-1 : gs.next_piece.shape = ShapeAt(i)
    /\ gs.current_piece.position = SpawnPosition
    /\ gs.next_piece.position = SpawnPosition
    /\ CollisionFree(gs)

\* C10: when S in MainMenu or R in GameOver has been handled, the mode is
\* Playing, the grid empty, the score 0, game_over false, and current and
\* next piece exist with catalog shapes on the spawn anchor, the current
\* one collision-free, whatever the state and the bag were before.
C10_StartLeavesFreshGame ==
    [][(/\ last' # last
        /\ \/ last'.op = "s" /\ last'.from = STATE_MAIN_MENU
           \/ last'.op = "r" /\ last'.from = STATE_GAME_OVER)
          => Started(game_state', current_mode')]_vars

\* A step that ends a finished game: game_over is true before it and false
\* after it (a return to the main menu, or the start of a new game).
LeavesFinishedGame == game_state.game_over /\ ~game_state'.game_over

\* A step that enters STATE_GAME_OVER, where set_mode hands the score to
\* add_score.
EntersGameOver == current_mode # STATE_GAME_OVER /\ current_mode' = STATE_GAME_OVER

\* C11: the final score of a game that ended in Playing mode is handed to
\* add_score exactly once before the game is left for the main menu or for
\* a new game: the score list changes only on entering GameOver mode, by
\* one add_score of the score then shown, and a finished game is left only
\* from GameOver mode, whichever keys are pressed after the game ended.
C11_ScoreSubmittedOnce ==
    [][/\ LeavesFinishedGame => current_mode = STATE_GAME_OVER
       /\ EntersGameOver
             => game_state'.highscores
                    = add_score(game_state.highscores, game_state'.score).highscores
       /\ ~EntersGameOver => game_state'.highscores = game_state.highscores]_vars

\* One gravity step: what game_loop does to the engine and the mode when
\* the accumulator reaches FALL_INTERVAL_MS exactly once.
GravityStep(r, perm) == game_loop(r.gs, r.mode, 0, FALL_INTERVAL_MS, perm, r.win).r

\* n gravity steps one after the other.
RECURSIVE GravitySteps(_, _, _)
GravitySteps(r, n, perm) ==
    IF n = 0 THEN r ELSE GravitySteps(GravityStep(r, perm), n - 1, perm)

\* A step that is a timer tick while a piece falls.
FallingTick == Falling /\ inputs' # inputs /\ last'.op = "tick"

\* C12: a tick that finds the accumulator at a and adds the elapsed time d
\* applies (a + d) \div 500 gravity steps and leaves the accumulator at
\* (a + d) % 500, so that it is below 500 after every tick.
C12_TickLaw ==
    [][FallingTick =>
          \E delta \in Deltas : \E perm \in Shuffles :
              LET a == time_accumulator_fall + delta
                  r == GravitySteps(Result(game_state, current_mode, "", window, 0),
                                    a \div FALL_INTERVAL_MS, perm)
              IN  /\ time_accumulator_fall' = a % FALL_INTERVAL_MS
                  /\ time_accumulator_fall' < FALL_INTERVAL_MS
                  /\ game_state' = r.gs
                  /\ current_mode' = r.mode]_vars

\* The turn a rotation key asks for: Q one turn about Y, E three turns
\* about Y, R one turn about Z.
Requested(p, key) ==
    IF key = "q" THEN RotateTimes(p, 1, 1)
    ELSE IF key = "e" THEN RotateTimes(p, 1, 3)
    ELSE RotateTimes(p, 2, 1)

\* A step that is a rotation key pressed while a piece falls.
RotationKey == Falling /\ inputs' # inputs /\ last'.op \in RotateKeys

\* C13: a rotation key pressed while a piece falls either is refused whole
\* or takes effect whole: when the turned offsets collide on the unchanged
\* anchor, offsets and anchor are what they were; when they do not, the
\* offsets are the turned ones and the anchor is what it was.  Nothing else
\* of the engine changes.
C13_RotationAllOrNothing ==
    [][RotationKey =>
          LET p      == game_state.current_piece
              turned == Requested(p, last'.op)
              blocked == \E c \in CellsOf(turned) : ~IsFree(game_state.grid, c)
          IN  /\ turned.position = p.position
              /\ blocked => game_state' = game_state
              /\ ~blocked => game_state' = [game_state EXCEPT !.current_piece.shape = turned.shape]
              /\ current_mode' = current_mode]_vars

\* C13, its case: R has been pressed on a piece whose turn about Z does not
\* fit, and the piece is as it was.
C13_RotationRefused ==
    /\ Falling
    /\ last.op = "r" /\ last.from = STATE_PLAYING /\ ~last.changed
    /\ Requested(game_state.current_piece, "r").shape # game_state.current_piece.shape
    /\ \E c \in CellsOf(Requested(game_state.current_piece, "r")) : ~IsFree(game_state.grid, c)

\* The vector a move key asks for under a camera yaw: the displacement
\* its handler gives a one-cell piece in the middle of an empty grid.
FreeCell == [shape |-> <<<<0, 0, 0>>>>, position |-> <<4, 10, 4>>, color |-> "cyan"]
RequestedVector(key, yaw) ==
    LET g == [InitialGameState EXCEPT !.current_piece = FreeCell]
        q == IF key \in ArrowKeys
             THEN special_keys(g, STATE_PLAYING, key, yaw).current_piece.position
             ELSE handle_wasd(g, key, yaw).current_piece.position
    IN  <<q[1] - 4, q[3] - 4>>

\* The second vector handle_wasd tries: one cell along the other horizontal
\* axis, on the side of the camera's forward vector.
AlternativeVector(v, yaw) ==
    <<IF v[1] # 0 THEN 0 ELSE (IF Sin(yaw) > 0 THEN 1 ELSE -1),
      IF v[2] # 0 THEN 0 ELSE (IF -Cos(yaw) > 0 THEN 1 ELSE -1)>>

\* The piece p does not fit on the anchor it would reach by the vector v.
Blocked(gs, p, v) == \E c \in CellsOf(move(p, v[1], 0, v[2])) : ~IsFree(gs.grid, c)

\* A step that is a lateral move key pressed while a piece falls.
MoveRequest == Falling /\ inputs' # inputs /\ last'.op \in MoveKeys \cup ArrowKeys

\* C14 as stated: a lateral move (W, A, S, D or an arrow) whose target
\* collides leaves the anchor exactly as it was: a rejected move never
\* displaces the piece.
C14_RejectedMoveStays ==
    [][MoveRequest =>
          LET p == game_state.current_piece
              v == RequestedVector(last'.op, camera_rot_y)
          IN  Blocked(game_state, p, v)
                 => game_state'.current_piece.position = p.position]_vars

\* C14 amended: a move whose target is free puts the anchor there; an
\* arrow move whose target collides leaves the engine as it was; a W, A, S
\* or D move whose target collides is tried once more along the
\* alternative vector, and leaves the engine as it was when that collides
\* too.  Only the anchor ever changes.
C14_RejectedMoveStaysOrSlides ==
    [][MoveRequest =>
          LET p == game_state.current_piece
              v == RequestedVector(last'.op, camera_rot_y)
              a == AlternativeVector(v, camera_rot_y)
              to(w) == [game_state EXCEPT !.current_piece = move(p, w[1], 0, w[2])]
          IN  /\ current_mode' = current_mode
              /\ ~Blocked(game_state, p, v) => game_state' = to(v)
              /\ (Blocked(game_state, p, v) /\ last'.op \in ArrowKeys) => game_state' = game_state
              /\ (Blocked(game_state, p, v) /\ last'.op \in MoveKeys)
                    => game_state' = IF Blocked(game_state, p, a) THEN game_state ELSE to(a)]_vars

\* C14, its case: the first key of a game was W, A, S or D, its target from
\* the spawn anchor collides, and the piece stands on the alternative
\* anchor.
C14_SlidAlongWall ==
    /\ Falling /\ inputs = 1
    /\ last.op \in MoveKeys /\ last.changed
    /\ LET v == RequestedVector(last.op, camera_rot_y)
           a == AlternativeVector(v, camera_rot_y)
           p == [game_state.current_piece EXCEPT !.position = SpawnPosition]
       IN  /\ Blocked(game_state, p, v)
           /\ game_state.current_piece.position = move(p, a[1], 0, a[2]).position

\* The engine state C15 compares.
Engine(gs) ==
    [grid |-> gs.grid, score |-> gs.score, current_piece |-> gs.current_piece,
     next_piece |-> gs.next_piece, last_piece |-> gs.last_piece,
     piece_bag |-> gs.piece_bag, game_over |-> gs.game_over]

\* Gravity steps until one of them locks the piece (n bounds their number).
RECURSIVE GravityUntilLock(_, _, _)
GravityUntilLock(r, n, perm) ==
    IF n = 0 \/ r.locks > 0 THEN r ELSE GravityUntilLock(GravityStep(r, perm), n - 1, perm)

\* The lowest anchor the piece reaches from its own by collision-free
\* descents of one cell, X and Z unchanged.
RECURSIVE LowestAnchor(_, _)
LowestAnchor(gs, p) ==
    IF Blocked(gs, move(p, 0, -1, 0), <<0, 0>>) THEN p.position
    ELSE LowestAnchor(gs, move(p, 0, -1, 0))

\* A step that is the space bar pressed while a piece falls.
HardDrop == Falling /\ inputs' # inputs /\ last'.op = " "

\* C15: a hard drop leaves grid, score, current, next and last piece, bag
\* and game_over as gravity steps alone leave them when they are repeated
\* until the piece locks, and the piece is locked on the lowest anchor it
\* reaches by consecutive collision-free descents, X and Z unchanged.
C15_HardDropIsGravity ==
    [][HardDrop =>
          \E perm \in Shuffles :
              LET r == GravityUntilLock(Result(game_state, current_mode, "", window, 0),
                                        GRID_Y + 1, perm)
              IN  /\ r.locks = 1
                  /\ Engine(game_state') = Engine(r.gs)
                  /\ game_state'.last_piece.position
                         = LowestAnchor(game_state, game_state.current_piece)
                  /\ game_state'.last_piece.shape = game_state.current_piece.shape]_vars

\* C15, its case: a piece has been dropped from the spawn anchor by the
\* space bar and lies locked further down.
C15_DroppedPiece ==
    /\ inputs > 0
    /\ last.op = " " /\ last.locks = 1 /\ last.from = STATE_PLAYING
    /\ game_state.last_piece # NoPiece
    /\ game_state.last_piece.position[2] < SpawnPosition[2]

\* The inputs C16 is about: a tick, W, A, D, an arrow, Q, E and the space bar.
PlayInputs == {"tick", "w", "a", "d", "q", "e", " "} \cup ArrowKeys

\* A change of mode that is a pause or a resume.
PauseOrResume ==
    <<current_mode, current_mode'>>
        \in {<<STATE_PLAYING, STATE_PAUSED>>, <<STATE_PAUSED, STATE_PLAYING>>}

\* C16: ticks and move, rotate and hard-drop inputs change the engine only
\* while a piece falls (mode Playing, game_over false): a step taken in any
\* other state that changes grid, current, next or last piece, score, bag
\* or game_over is none of these inputs.  A pause and a resume leave the
\* engine and the fall accumulator as they were.
C16_FrozenOutsidePlay ==
    [][/\ (~Falling /\ Engine(game_state') # Engine(game_state)) => last'.op \notin PlayInputs
       /\ PauseOrResume
             => (game_state' = game_state /\ time_accumulator_fall' = time_accumulator_fall)]_vars

\* C16, its case: the space bar was pressed in Playing mode after the game
\* had ended; it was handled (the score was recorded) and no piece dropped.
C16_SpaceAfterGameOver ==
    /\ current_mode = STATE_GAME_OVER
    /\ last.op = " " /\ last.from = STATE_PLAYING /\ last.locks = 0
    /\ game_state.game_over
    /\ Len(game_state.highscores) = 1

\* The modes of a game that has been started and not yet left.
GameModes == {STATE_PLAYING, STATE_PAUSED, STATE_GAME_OVER}

\* A step that restarts from GameOver, or returns to the main menu.
RestartOrMenu ==
    \/ current_mode' = STATE_MAIN_MENU
    \/ current_mode = STATE_GAME_OVER /\ last'.op = "r"

\* C17: the score is never negative, and from the start of a game to the
\* next start, restart or return to the menu it never decreases: a step
\* taken in Playing, Paused or GameOver mode that lowers the score is a
\* restart or a return to the menu.
C17_ScoreMonotone ==
    /\ [](game_state.score >= 0)
    /\ [][(current_mode \in GameModes /\ game_state'.score < game_state.score)
             => RestartOrMenu]_vars

\* C17, its case: a game in which a second piece has just been locked, the
\* score standing above that of one placement.
C17_ScoreRaised ==
    /\ current_mode = STATE_PLAYING
    /\ last.locks = 1 /\ last.from = STATE_PLAYING
    /\ game_state.score >= 80

\* The offsets of a list are pairwise different.
Distinct(shape) == \A i, j \in 1..Len(shape) : i # j => shape[i] # shape[j]

\* C18: for every offset list reached from a catalog shape by rotations
\* and for each of the three axes, four rotations about the axis give the
\* list back, and one rotation gives a list of as many offsets, pairwise
\* different.
C18_RotationOfOrderFour ==
    LET p == game_state.current_piece
    IN  \A axis \in 0..2 :
            /\ RotateTimes(p, axis, 4).shape = p.shape
            /\ Len(rotate(p, axis).shape) = Len(p.shape)
            /\ Distinct(p.shape) => Distinct(rotate(p, axis).shape)
            /\ Distinct(p.shape)

\* C18, its case: a piece that was turned about X lies in an orientation
\* with a negative offset, which is none of the catalog.
C18_TurnedOffCatalog ==
    /\ ret.op = "rotate" /\ ret.axis = 0
    /\ game_state.current_piece.shape # ret.before
    /\ \E i \in 1..Len(game_state.current_piece.shape) :
           game_state.current_piece.shape[i][2] < 0
    /\ \A k \in 0..NumShapes-1 : game_state.current_piece.shape # ShapeAt(k)

\* C19: the loading screen ends without a key: once LOADING_DURATION
\* milliseconds have elapsed and the timer goes on ticking, the mode
\* becomes MainMenu (unless ESC has ended the process).
C19_LoadingTimesOut ==
    (current_mode = STATE_LOADING /\ ret.value >= LOADING_DURATION)
        ~> (current_mode = STATE_MAIN_MENU \/ halted = "exit")

\* What C20 observes of a game that S starts from the menu state gs: the
\* grid, the score, game_over, the last piece, the bag, and whether the
\* start was handled at all.
StartObserved(gs, perm) ==
    LET r == StartGame(gs, STATE_MAIN_MENU, perm, <<>>)
    IN  [grid |-> r.gs.grid, score |-> r.gs.score, game_over |-> r.gs.game_over,
         last_piece |-> r.gs.last_piece, piece_bag |-> r.gs.piece_bag, halted |-> r.halted]

\* A step of the menu demo: display() in MainMenu changes the engine.
DemoStep == current_mode = STATE_MAIN_MENU /\ last'.op = "display" /\ game_state' # game_state

\* C20: the menu demo is isolated from the game: whatever a display call
\* does in MainMenu, a game started after it shows the same grid, score,
\* game_over, last piece and bag as a game started before it, so that two
\* runs that differ only in what the demo did start the same game.
C20_DemoIsolated ==
    [][DemoStep =>
          \A perm \in Shuffles :
              StartObserved(game_state', perm) = StartObserved(game_state, perm)]_vars

\* C21: every change the menu demo makes to its piece (a lateral move, a
\* rotation, a drop, the periodic fall) is tested with check_collision and
\* taken back when it collides, so that after each display call in
\* MainMenu every cell of the demo piece is inside the grid and empty, and
\* the demo never locks a piece that overlaps a cell or leaves the grid.
C21_DemoPieceCollisionFree ==
    (current_mode = STATE_MAIN_MENU /\ game_state.current_piece # NoPiece)
        => CollisionFree(game_state)

\* C22: after any sequence of add_score calls on a list that was empty the
\* list has at most MAX_HIGHSCORES entries, in non-increasing order.
C22_ListBoundedAndSorted ==
    LET hs == game_state.highscores
    IN  /\ Len(hs) <= MAX_HIGHSCORES
        /\ \A i, j \in 1..Len(hs) : i < j => hs[i] >= hs[j]

\* C22, its case: a score has been inserted into a full list of different
\* scores.
C22_InsertedIntoFullList ==
    /\ ret.op = "add_score" /\ ret.value
    /\ Len(ret.before) = MAX_HIGHSCORES
    /\ game_state.highscores[1] > game_state.highscores[MAX_HIGHSCORES]

\* How often a score is stored, and how many submitted scores are larger.
Count(hs, v) == Cardinality({i \in 1..Len(hs) : hs[i] = v})
RECURSIVE SumOver(_, _)
SumOver(f, S) ==
    IF S = {} THEN 0 ELSE LET v == CHOOSE w \in S : TRUE IN f[v] + SumOver(f, S \ {v})
LargerSubmitted(v) == SumOver(ret.submitted, {w \in Scores : w > v})

\* How often v is among the MAX_HIGHSCORES largest scores submitted.
AmongLargest(v) ==
    LET room == MAX_HIGHSCORES - LargerSubmitted(v)
    IN  IF room <= 0 THEN 0
        ELSE IF ret.submitted[v] < room THEN ret.submitted[v] ELSE room

\* C23: the stored scores are, as a multiset, the MAX_HIGHSCORES largest
\* scores submitted so far (all of them while there are fewer); add_score
\* returns true exactly when the list had fewer than MAX_HIGHSCORES entries
\* or the score is greater than the smallest stored one, the entry is then
\* in the list, and otherwise the list is unchanged.
C23_KeepsLargestScores ==
    /\ \A v \in Scores : Count(game_state.highscores, v) = AmongLargest(v)
    /\ ret.op = "add_score" =>
          /\ ret.value <=> (\/ Len(ret.before) < MAX_HIGHSCORES
                            \/ \E i \in 1..Len(ret.before) : ret.before[i] < ret.score)
          /\ ret.value => Count(game_state.highscores, ret.score)
                              = Count(ret.before, ret.score) + 1
          /\ ~ret.value => game_state.highscores = ret.before

\* C23, its case: a score between the smallest and the largest stored one
\* has been submitted to a full list and has displaced the smallest.
C23_DisplacedSmallest ==
    /\ ret.op = "add_score" /\ ret.value
    /\ Len(ret.before) = MAX_HIGHSCORES
    /\ ret.before[1] > ret.score
    /\ ret.score > ret.before[MAX_HIGHSCORES]
    /\ Count(game_state.highscores, ret.before[MAX_HIGHSCORES])
           = Count(ret.before, ret.before[MAX_HIGHSCORES]) - 1

\* A step of a handler in Playing mode, and one that locked a piece.
PlayStep == current_mode = STATE_PLAYING /\ inputs' # inputs
PlayLock == PlayStep /\ last'.locks = 1

\* C24: a spawn that follows a lock makes current the piece that was next,
\* with its shape and colour, on the spawn anchor (4,17,4); a move, a
\* rotation, a gravity step that does not lock, or any other handler that
\* does not spawn leaves the next piece as it is.
C24_NextPiecePromoted ==
    [][/\ PlayLock =>
            /\ game_state'.current_piece.shape = game_state.next_piece.shape
            /\ game_state'.current_piece.color = game_state.next_piece.color
            /\ game_state'.current_piece.position = SpawnPosition
       /\ (PlayStep /\ ~PlayLock) => game_state'.next_piece = game_state.next_piece]_vars

\* C24, its case: a lock in Playing mode has promoted the next piece and a
\* piece of another shape has been queued.
C24_Promoted ==
    /\ inputs > 0
    /\ last.locks = 1 /\ last.from = STATE_PLAYING
    /\ game_state.current_piece.position = SpawnPosition
    /\ game_state.next_piece # NoPiece
    /\ game_state.next_piece.shape # game_state.current_piece.shape

\* What display draws at random in the menu demo; outside the menu none
\* of it is read.
NoDemoAct == [act |-> "none", dx |-> 0, dz |-> 0, axis |-> 0]

\* C25: a display call in Playing, Paused or GameOver mode leaves the
\* engine as it is: grid, score, bag, next and last piece and the shape and
\* anchor of the current piece are the same when it returns, although
\* find_landing_position moves the current piece to probe for its landing
\* height.
C25_RenderLeavesEngine ==
    /\ current_mode \in GameModes =>
          \A perm \in Shuffles :
              LET r == display(game_state, current_mode, NoDemoAct, FALSE, perm, perm, window)
              IN  r.gs = game_state /\ r.mode = current_mode /\ r.halted = ""
    /\ [][(current_mode \in GameModes /\ game_state' # game_state) => last'.op # "display"]_vars

\* C25, its case: a piece falls above a stack, so that the probe of a
\* display call moves it down several cells and stops on the stack.
C25_ProbeAboveStack ==
    /\ Falling
    /\ find_landing_position(game_state).landing_y > 0
    /\ find_landing_position(game_state).landing_y < game_state.current_piece.position[2] - 1

\* The grid has GRID_X by GRID_Y by GRID_Z cells.
HasDimensions(grid) ==
    /\ DOMAIN grid = 0..GRID_X-1
    /\ \A x \in 0..GRID_X-1 :
          /\ DOMAIN grid[x] = 0..GRID_Y-1
          /\ \A y \in 0..GRID_Y-1 : DOMAIN grid[x][y] = 0..GRID_Z-1

\* C26: the grid has 8 by 20 by 8 cells, before and after a lock with its
\* layer clearing, and every index check_collision, the locking loop and
\* the layer loops use on it lies in 0..7, 0..19, 0..7, for every shape
\* reached by rotation (negative offsets included) and every anchor
\* inside, on the faces of and outside the field.
C26_IndicesInRange ==
    LET p == game_state.current_piece
    IN  /\ HasDimensions(game_state.grid)
        /\ \A c \in LayerIndices : InGrid(c)
        /\ \A position \in Anchors :
              /\ \A c \in ReadsFrom(game_state.grid, p.shape, position, 1) : InGrid(c)
              /\ \A c \in LockWrites(p.shape, position) : InGrid(c)
              /\ HasDimensions(
                    ClearLayers(LockFrom(game_state.grid, p.shape, position, p.color, 1)).grid)

\* C26, its case: check_collision has been applied on an anchor beside the
\* field to a rotated piece with a negative offset, and has read a cell of
\* the grid before it returned.
C26_NegativeOffsetBesideField ==
    /\ ret.op = "check_collision"
    /\ ret.position[1] = -1
    /\ \E i \in 1..Len(game_state.current_piece.shape) : \E k \in 1..3 :
           game_state.current_piece.shape[i][k] < 0
    /\ ReadsFrom(game_state.grid, game_state.current_piece.shape, ret.position, 1) # {}

\* The second grid holds the colour in the given cells and is the first
\* grid in every other cell.
Painted(before, after, cells, colour) ==
    \A x \in 0..GRID_X-1, y \in 0..GRID_Y-1, z \in 0..GRID_Z-1 :
        after[x][y][z] = IF <<x, y, z>> \in cells THEN colour ELSE before[x][y][z]

\* The piece a locking handler locks: where it stands after a rejected
\* gravity step, where the hard drop has put it.
PieceToLock ==
    IF last'.op = " "
    THEN [game_state.current_piece
             EXCEPT !.position = LowestAnchor(game_state, game_state.current_piece)]
    ELSE game_state.current_piece

\* C27: a lock in Playing mode, after a rejected gravity step or a hard
\* drop, writes the colour of the piece into exactly its absolute cells:
\* each of them is inside the grid and was empty, and the grid handed to
\* the layer clearing differs from the grid before in these cells only.
C27_LockWritesPieceCells ==
    [][PlayLock =>
          /\ game_state'.last_piece = PieceToLock
          /\ LET q == game_state'.last_piece
                 locked == LockFrom(game_state.grid, q.shape, q.position, q.color, 1)
             IN  /\ \A c \in CellsOf(q) : IsFree(game_state.grid, c)
                 /\ Cardinality(CellsOf(q)) = Len(q.shape)
                 /\ Painted(game_state.grid, locked, CellsOf(q), q.color)
                 /\ game_state'.grid = ClearLayers(locked).grid]_vars

\* C27, its case: a piece has been locked in Playing mode on another one
\* and its cells hold its colour.
C27_LockedOnStack ==
    /\ inputs > 0
    /\ last.locks = 1 /\ last.from = STATE_PLAYING
    /\ game_state.last_piece.position[2] > 0
    /\ \A c \in CellsOf(game_state.last_piece) :
           InGrid(c) /\ game_state.grid[c[1]][c[2]][c[3]] = game_state.last_piece.color

\* C28: when lock_piece_and_clear has returned, no layer of the grid is
\* fully occupied: every layer has an empty (x,z) cell, however many
\* layers the locked piece completed and wherever they lay.
C28_NoFullLayerLeft ==
    ret.op = "lock" =>
        \A y \in 0..GRID_Y-1 :
            \E x \in 0..GRID_X-1, z \in 0..GRID_Z-1 : game_state.grid[x][y][z] = None

\* C28, its case: the lock completed layers 2 and 3, next to each other,
\* and layer 5 apart from them, with layers 4 and 6 partly filled.
C28_AdjacentAndApart ==
    /\ ret.op = "lock"
    /\ FullLayers(ret.locked) = {2, 3, 5}
    /\ ret.locked[GRID_X-1][4][0] # None
    /\ ret.locked[GRID_X-1][6][0] # None
    /\ FullLayers(game_state.grid) = {}

\* C29: a lateral move request (W, A, S, D or an arrow) in Playing mode
\* that moves the piece changes its anchor by exactly one cell along
\* exactly one of the X and Z axes, and leaves Y and the shape as they
\* were, for every camera yaw.
C29_OneCellAlongOneAxis ==
    [][(MoveRequest /\ game_state'.current_piece # game_state.current_piece) =>
          LET p == game_state.current_piece
              q == game_state'.current_piece
          IN  /\ Abs(q.position[1] - p.position[1]) + Abs(q.position[3] - p.position[3]) = 1
              /\ q.position[2] = p.position[2]
              /\ q.shape = p.shape]_vars

\* A step in which the timer applies a gravity step to the falling piece.
FallStep == Falling /\ game_state' # game_state /\ last'.op = "tick"

\* C30: while a piece falls and the timer keeps calling game_loop, the piece
\* is eventually locked, whatever lateral moves and rotations come in
\* between.  Every gravity step either lowers the anchor Y by exactly one,
\* X, Z and shape unchanged, or leaves the anchor and locks the piece; and
\* the anchor Y never increases before the lock.
C30_FallsUntilLocked ==
    /\ [][FallStep =>
             \/ /\ ret'.locks = ret.locks
                /\ game_state' = [game_state EXCEPT
                                     !.current_piece = move(game_state.current_piece, 0, -1, 0)]
             \/ /\ ret'.locks = ret.locks + 1
                /\ game_state'.last_piece = game_state.current_piece]_vars
    /\ [][ret'.locks = ret.locks =>
             game_state'.current_piece.position[2] <= game_state.current_piece.position[2]]_vars
    /\ \A n \in 0..MaxLocks-1 : (Falling /\ ret.locks = n) ~> (ret.locks > n)

\* C30, its case: the piece was locked after MaxMoves keys between the
\* ticks, away from the column it was spawned in and turned out of the
\* orientation it was spawned in, on the stack.
C30_LockedAfterMoves ==
    /\ ret.op = "fall" /\ ret.locks = 1
    /\ inputs = MaxMoves
    /\ last.op = "tick"
    /\ game_state.last_piece.position[1] # SpawnPosition[1]
    /\ game_state.last_piece.position[2] > 0
    /\ \A i \in 0..NumShapes-1 : game_state.last_piece.shape # ShapeAt(i)

\* The occupied cells of a grid.
Occupied(grid) ==
    {<<x, y, z>> \in (0..GRID_X-1) \X (0..GRID_Y-1) \X (0..GRID_Z-1) : grid[x][y][z] # None}

\* The colours of the palette.
Palette == {ColorAt(i) : i \in 0..NumShapes-1}

\* C31: lock_piece_and_clear leaves as many occupied cells as there were
\* before, plus the cells of the locked piece, minus GRID_X * GRID_Z (64)
\* for every layer cleared; and every occupied cell holds a colour of the
\* palette.
C31_OccupiedCellsBalance ==
    ret.op = "lock" =>
        /\ Cardinality(Occupied(game_state.grid))
              = Cardinality(Occupied(ret.before.grid)) + Len(ret.before.current_piece.shape)
                   - GRID_X * GRID_Z * Cardinality(FullLayers(ret.locked))
        /\ ret.layers_cleared = Cardinality(FullLayers(ret.locked))
        /\ \A c \in Occupied(game_state.grid) : game_state.grid[c[1]][c[2]][c[3]] \in Palette

\* C31, its case: the lock completed three layers and left fewer occupied
\* cells than it found, partly filled layers among them.
C31_ThreeLayersCleared ==
    /\ ret.op = "lock"
    /\ ret.layers_cleared = 3
    /\ Occupied(game_state.grid) # {}
    /\ Cardinality(Occupied(game_state.grid)) < Cardinality(Occupied(ret.before.grid))

\* C32: in every state the running program is in between two handlers,
\* STATE_GAME_OVER comes with game_over true, and STATE_PLAYING and
\* STATE_PAUSED come with a current and a next piece.
C32_ModeAndEngineAgree ==
    halted = "" =>
        /\ current_mode = STATE_GAME_OVER => game_state.game_over
        /\ current_mode \in {STATE_PLAYING, STATE_PAUSED} =>
               /\ game_state.current_piece # NoPiece
               /\ game_state.next_piece # NoPiece

\* C32, its case: a game has ended by a gravity step and the program waits
\* in STATE_GAME_OVER.
C32_GameOverShown ==
    /\ halted = ""
    /\ current_mode = STATE_GAME_OVER
    /\ game_state.game_over
    /\ last.op = "tick"

\* A step that starts a game: S handled in the main menu or R handled
\* after a game is over, up to set_mode(STATE_PLAYING).
GameStart ==
    /\ last' # last
    /\ \/ last'.op = "s" /\ last'.from = STATE_MAIN_MENU
       \/ last'.op = "r" /\ last'.from = STATE_GAME_OVER
    /\ current_mode' = STATE_PLAYING
    /\ halted' = ""

\* C33: a game starts with last_piece None, and while it is played or
\* paused last_piece leaves None only by a lock, so that the LAST preview
\* never shows a piece locked in an earlier game or in the menu demo.
C33_NewGameHasNoLastPiece ==
    /\ [][GameStart => game_state'.last_piece = NoPiece]_vars
    /\ [][(/\ current_mode \in {STATE_PLAYING, STATE_PAUSED}
           /\ game_state.last_piece = NoPiece
           /\ game_state'.last_piece # NoPiece) => last'.locks = 1]_vars

====
